---- MODULE Spec2Model ----
(***************************************************************************)
(* Model of the stats collector (stats/collector.go).                      *)
(*                                                                         *)
(* Processes: the Flusher goroutine (Collector.Run), producer goroutines   *)
(* calling Record, the host (NewCollector, go Run, Stop, WaitGroup.Wait),  *)
(* and the wall clock.                                                     *)
(*                                                                         *)
(* Floating point values are kept as exact rationals:                      *)
(* EffectiveHashrate is a whole number (a product of two integers);        *)
(* totalCollectedHashrate is held as its numerator over the denominator    *)
(* statCollectionPeriodSecs.                                               *)
(***************************************************************************)
EXTENDS Integers, Sequences, FiniteSets, TLC

\* ---------------------------------------------------------------- constants
statCollectionPeriodSecs == 60
keepStatsForSecs == 86400

\* ---------------------------------------------------------------- bounds
ClockStep  == 45      \* seconds the clock advances in one Tick
ClockTicks == 2       \* number of Ticks in a run
StartTime  == 86430   \* Unix time of the first state
MaxRecords == 2       \* Record calls in a run
PairClockStep  == 20  \* seconds of one PairTick
PairClockTicks == 6   \* number of PairTicks in a run

MaxTime == StartTime + ClockTicks * ClockStep
PairMaxTime == StartTime + PairClockTicks * PairClockStep

Workers      == {"rig1", "rig2"}
Producers    == {"p1", "p2"}
\* two collector processes started at different times on the same clock
Collectors   == {"a", "b"}
Difficulties == {0, 1000}
\* the Record calls a producer may make: <<workerName, validDelta, staleDelta,
\* invalidDelta, reportedHashrate, ipAddress>>
Inputs       == {<<"rig1", 10, 0, 0, 500, "1.2.3.4">>,
                 <<"rig1", 1, 2, 3, 600, "5.6.7.8">>,
                 <<"rig2", 10, 0, 0, 700, "9.9.9.9">>}

VARIABLES
    now,                    \* time.Now().Unix()
    constructed,            \* outcome of NewCollector: "none" | "collector" | "error"
    ShareDifficulty,        \* Collector.ShareDifficulty
    PendingStats,           \* Collector.PendingStats: worker -> PendingStat
    Mux,                    \* Collector.Mux: "free" | "flusher" | a producer
    cancelled,              \* Collector.Context is done
    engineWaitGroup,        \* counter of the host's sync.WaitGroup
    pc,                     \* position of Run
    prevCollectionTimestamp,
    totalCollectedHashrate, \* numerator over statCollectionPeriodSecs
    batch,                  \* leveldb.Batch under construction: set of rows
    store,                  \* rows of the database
    rpc,                    \* producer -> "idle" | "locked"
    waitReturned,           \* host's engineWaitGroup.Wait() has returned
    \* history variables
    periodLog,              \* per worker, the Record calls applied since the last
                            \* completed batch build, in order
    flushed,                \* boundaries for which a flush was started, in order
    emitted,                \* summaries logged, in order (numerators, as totalCollectedHashrate)
    writeFailed,            \* the DB.Write of the latest flush failed
    pruneFailed,            \* the PruneStats of the latest flush failed
    nRecords,               \* Record calls so far
    stopCalls,              \* Stop calls so far: 0, 1, or 2 for two or more
    runs                    \* two collectors on one clock: the poll loop of each
                            \* collector that has entered Run

vars == <<now, constructed, ShareDifficulty, PendingStats, Mux, cancelled,
          engineWaitGroup, pc, prevCollectionTimestamp, totalCollectedHashrate,
          batch, store, rpc, waitReturned, periodLog, flushed, emitted,
          writeFailed, pruneFailed, nRecords, stopCalls, runs>>

\* everything but the clock and the pair of poll loops
collectorVars == <<constructed, ShareDifficulty, PendingStats, Mux, cancelled,
                   engineWaitGroup, pc, prevCollectionTimestamp,
                   totalCollectedHashrate, batch, store, rpc, waitReturned,
                   periodLog, flushed, emitted, writeFailed, pruneFailed,
                   nRecords, stopCalls>>

\* the program's own state, without the history variables
progVars == <<now, constructed, ShareDifficulty, PendingStats, Mux, cancelled,
              engineWaitGroup, pc, prevCollectionTimestamp,
              totalCollectedHashrate, batch, store, rpc, waitReturned>>

\* ---------------------------------------------------------------- helpers

\* mutant: the remainder is not removed
BucketOfRaw(t) == t

\* time.Now().Unix() / statCollectionPeriodSecs * statCollectionPeriodSecs
BucketOf(t) == (t \div statCollectionPeriodSecs) * statCollectionPeriodSecs

EmptyMap == [w \in {} |-> 0]

EmptyLog == [w \in Workers |-> <<>>]

\* rows left in the database by an earlier run of the process
OldRows ==
    { [WorkerName |-> "rig1", ValidShareCount |-> 1, StaleShareCount |-> 0,
       InvalidShareCount |-> 0, ReportedHashrate |-> 500,
       EffectiveHashrate |-> 1000, IPAddress |-> "1.2.3.4", Timestamp |-> t]
      : t \in {0, 120} }

\* ---------------------------------------------------------------- Accumulator

\* Record: counters are summed, reportedHashrate and ipAddress overwritten,
\* the entry is created if absent
Merge(stats, workerName, validDelta, staleDelta, invalidDelta, reportedHashrate, ipAddress) ==
    LET old == IF workerName \in DOMAIN stats
               THEN stats[workerName]
               ELSE [ValidShares |-> 0, StaleShares |-> 0, InvalidShares |-> 0,
                     ReportedHashrate |-> 0, IPAddress |-> ""]
        new == [ValidShares      |-> old.ValidShares + validDelta,
                StaleShares      |-> old.StaleShares + staleDelta,
                InvalidShares    |-> old.InvalidShares + invalidDelta,
                ReportedHashrate |-> reportedHashrate,
                IPAddress        |-> ipAddress]
    IN  [w \in DOMAIN stats \cup {workerName} |->
            IF w = workerName THEN new ELSE stats[w]]

\* a producer enters Record and takes the mutex
RecordLock(p) ==
    /\ constructed = "collector"
    /\ rpc[p] = "idle"
    /\ nRecords < MaxRecords
    /\ Mux = "free"
    /\ Mux' = p
    /\ rpc' = [rpc EXCEPT ![p] = "locked"]
    /\ nRecords' = nRecords + 1
    /\ UNCHANGED <<now, constructed, ShareDifficulty, PendingStats, cancelled,
                   engineWaitGroup, pc, prevCollectionTimestamp,
                   totalCollectedHashrate, batch, store, waitReturned,
                   periodLog, flushed, emitted, writeFailed, pruneFailed, stopCalls,
                   runs>>

\* the producer merges its update and releases the mutex
RecordApply(p) ==
    /\ rpc[p] = "locked"
    /\ \E d \in Inputs :
          /\ PendingStats' = Merge(PendingStats, d[1], d[2], d[3], d[4], d[5], d[6])
          /\ periodLog' = [periodLog EXCEPT ![d[1]] = Append(@,
                [validDelta |-> d[2], staleDelta |-> d[3],
                 invalidDelta |-> d[4], reportedHashrate |-> d[5],
                 ipAddress |-> d[6],
                 \* applied after the Flusher finished reading the map and
                 \* before its Clear ran
                 inFlush |-> (pc = "clear_lock")])]
    /\ Mux' = "free"
    /\ rpc' = [rpc EXCEPT ![p] = "idle"]
    /\ UNCHANGED <<now, constructed, ShareDifficulty, cancelled,
                   engineWaitGroup, pc, prevCollectionTimestamp,
                   totalCollectedHashrate, batch, store, waitReturned,
                   flushed, emitted, writeFailed, pruneFailed, nRecords, stopCalls,
                   runs>>

\* ---------------------------------------------------------------- store

\* db.WriteStatToBatch + DB.Write: rows are keyed by (WorkerName, Timestamp)
WriteBatch(rows, b) ==
    { r \in rows : ~ \E n \in b : /\ n.WorkerName = r.WorkerName
                                  /\ n.Timestamp = r.Timestamp } \cup b

\* Database.PruneStats: removes all rows with Timestamp < t - horizon
PruneStats(rows, t, horizon) == { r \in rows : r.Timestamp >= t - horizon }

\* ---------------------------------------------------------------- host

\* NewCollector: no validation, always returns a collector; Init() makes the map
NewCollector ==
    /\ pc = "new"
    /\ \E d \in Difficulties : ShareDifficulty' = d
    /\ constructed' = "collector"
    /\ PendingStats' = EmptyMap
    /\ cancelled' = FALSE
    /\ pc' = "ready"
    /\ UNCHANGED <<now, Mux, engineWaitGroup, prevCollectionTimestamp,
                   totalCollectedHashrate, batch, store, rpc, waitReturned,
                   periodLog, flushed, emitted, writeFailed, pruneFailed,
                   nRecords, stopCalls,
                   runs>>

\* the host starts the Flusher: go c.Run()
Start ==
    /\ pc = "ready"
    /\ pc' = "enter"
    /\ UNCHANGED <<now, constructed, ShareDifficulty, PendingStats, Mux, cancelled,
                   engineWaitGroup, prevCollectionTimestamp,
                   totalCollectedHashrate, batch, store, rpc, waitReturned,
                   periodLog, flushed, emitted, writeFailed, pruneFailed,
                   nRecords, stopCalls,
                   runs>>

\* mutant: a cancel that flips the flag on every call
ContextCancelFuncToggle(done) == ~done

\* context.CancelFunc: the first call cancels, later calls do nothing
ContextCancelFunc(done) == TRUE

Stop ==
    /\ constructed = "collector"
    /\ cancelled' = ContextCancelFunc(cancelled)
    /\ stopCalls' = IF stopCalls = 0 THEN 1 ELSE 2
    /\ UNCHANGED <<now, constructed, ShareDifficulty, PendingStats, Mux,
                   engineWaitGroup, pc, prevCollectionTimestamp,
                   totalCollectedHashrate, batch, store, rpc, waitReturned,
                   periodLog, flushed, emitted, writeFailed, pruneFailed, nRecords,
                   runs>>

\* the host, having started the Flusher, waits on the WaitGroup:
\* Wait returns when the counter is zero
HostWait ==
    /\ pc \notin {"new", "ready"}
    /\ ~waitReturned
    /\ engineWaitGroup = 0
    /\ waitReturned' = TRUE
    /\ UNCHANGED <<now, constructed, ShareDifficulty, PendingStats, Mux, cancelled,
                   engineWaitGroup, pc, prevCollectionTimestamp,
                   totalCollectedHashrate, batch, store, rpc,
                   periodLog, flushed, emitted, writeFailed, pruneFailed,
                   nRecords, stopCalls,
                   runs>>

\* the wall clock advances (non-decreasing)
Tick ==
    /\ now + ClockStep <= MaxTime
    /\ now' = now + ClockStep
    /\ UNCHANGED <<constructed, ShareDifficulty, PendingStats, Mux, cancelled,
                   engineWaitGroup, pc, prevCollectionTimestamp,
                   totalCollectedHashrate, batch, store, rpc, waitReturned,
                   periodLog, flushed, emitted, writeFailed, pruneFailed,
                   nRecords, stopCalls,
                   runs>>

\* ---------------------------------------------------------------- Flusher (Run)

\* mutant: the marker starts at zero instead of the current period's floor
RunEnterZeroMarker ==
    /\ pc = "enter"
    /\ engineWaitGroup' = engineWaitGroup + 1
    /\ prevCollectionTimestamp' = 0
    /\ totalCollectedHashrate' = 0
    /\ pc' = "select"
    /\ UNCHANGED <<now, constructed, ShareDifficulty, PendingStats, Mux, cancelled,
                   batch, store, rpc, waitReturned,
                   periodLog, flushed, emitted, writeFailed, pruneFailed,
                   nRecords, stopCalls,
                   runs>>

\* Run's entry: engineWaitGroup.Add(1), defer Done, the previous-boundary marker
RunEnter ==
    /\ pc = "enter"
    /\ engineWaitGroup' = engineWaitGroup + 1
    /\ prevCollectionTimestamp' = BucketOf(now)
    /\ totalCollectedHashrate' = 0
    /\ pc' = "select"
    /\ UNCHANGED <<now, constructed, ShareDifficulty, PendingStats, Mux, cancelled,
                   batch, store, rpc, waitReturned,
                   periodLog, flushed, emitted, writeFailed, pruneFailed,
                   nRecords, stopCalls,
                   runs>>

\* mutant: the select never takes the Done case
SelectIgnoringDone ==
    /\ pc = "select"
    /\ pc' = "poll"
    /\ UNCHANGED <<now, constructed, ShareDifficulty, PendingStats, Mux, cancelled,
                   engineWaitGroup, prevCollectionTimestamp, totalCollectedHashrate,
                   batch, store, rpc, waitReturned,
                   periodLog, flushed, emitted, writeFailed, pruneFailed,
                   nRecords, stopCalls,
                   runs>>

\* select { case <-c.Context.Done(): return; default: ... }
\* returning runs the deferred engineWaitGroup.Done()
Select ==
    /\ pc = "select"
    /\ IF cancelled
       THEN /\ pc' = "stopped"
            /\ engineWaitGroup' = engineWaitGroup - 1
       ELSE /\ pc' = "poll"
            /\ UNCHANGED engineWaitGroup
    /\ UNCHANGED <<now, constructed, ShareDifficulty, PendingStats, Mux, cancelled,
                   prevCollectionTimestamp, totalCollectedHashrate,
                   batch, store, rpc, waitReturned,
                   periodLog, flushed, emitted, writeFailed, pruneFailed,
                   nRecords, stopCalls,
                   runs>>

\* mutant: the previous-boundary marker is not updated when a flush starts
PollKeepingMarker ==
    /\ pc = "poll"
    /\ LET currentCollectionTimestamp == BucketOf(now)
       IN  IF prevCollectionTimestamp = currentCollectionTimestamp
           THEN /\ pc' = "sleep"
                /\ UNCHANGED <<flushed, writeFailed, pruneFailed>>
           ELSE /\ flushed' = Append(flushed, currentCollectionTimestamp)
                /\ writeFailed' = FALSE
                /\ pruneFailed' = FALSE
                /\ pc' = "lock"
    /\ UNCHANGED <<now, constructed, ShareDifficulty, PendingStats, Mux, cancelled,
                   engineWaitGroup, prevCollectionTimestamp, totalCollectedHashrate,
                   batch, store, rpc, waitReturned,
                   periodLog, emitted, nRecords, stopCalls,
                   runs>>

\* the default branch: compare the current bucket with the previous one
Poll ==
    /\ pc = "poll"
    /\ LET currentCollectionTimestamp == BucketOf(now)
       IN  IF prevCollectionTimestamp = currentCollectionTimestamp
           THEN /\ pc' = "sleep"
                /\ UNCHANGED <<prevCollectionTimestamp, flushed,
                               writeFailed, pruneFailed>>
           ELSE /\ prevCollectionTimestamp' = currentCollectionTimestamp
                /\ flushed' = Append(flushed, currentCollectionTimestamp)
                /\ writeFailed' = FALSE
                /\ pruneFailed' = FALSE
                /\ pc' = "lock"
    /\ UNCHANGED <<now, constructed, ShareDifficulty, PendingStats, Mux, cancelled,
                   engineWaitGroup, totalCollectedHashrate,
                   batch, store, rpc, waitReturned,
                   periodLog, emitted, nRecords, stopCalls,
                   runs>>

\* time.Sleep(time.Second); continue
Sleep ==
    /\ pc = "sleep"
    /\ pc' = "select"
    /\ UNCHANGED <<now, constructed, ShareDifficulty, PendingStats, Mux, cancelled,
                   engineWaitGroup, prevCollectionTimestamp, totalCollectedHashrate,
                   batch, store, rpc, waitReturned,
                   periodLog, flushed, emitted, writeFailed, pruneFailed,
                   nRecords, stopCalls,
                   runs>>

\* c.Mux.Lock(); batch := new(leveldb.Batch)
Lock ==
    /\ pc = "lock"
    /\ Mux = "free"
    /\ Mux' = "flusher"
    /\ batch' = {}
    /\ pc' = "build"
    /\ UNCHANGED <<now, constructed, ShareDifficulty, PendingStats, cancelled,
                   engineWaitGroup, prevCollectionTimestamp, totalCollectedHashrate,
                   store, rpc, waitReturned,
                   periodLog, flushed, emitted, writeFailed, pruneFailed,
                   nRecords, stopCalls,
                   runs>>

\* mutant: the stale and invalid counts are exchanged
StatOfSwapped(workerName, pendingStat, shareDifficulty, timestamp) ==
    [WorkerName        |-> workerName,
     ValidShareCount   |-> pendingStat.ValidShares,
     StaleShareCount   |-> pendingStat.InvalidShares,
     InvalidShareCount |-> pendingStat.StaleShares,
     ReportedHashrate  |-> pendingStat.ReportedHashrate,
     EffectiveHashrate |-> pendingStat.ValidShares * shareDifficulty,
     IPAddress         |-> pendingStat.IPAddress,
     Timestamp         |-> timestamp]

\* the db.Stat of one worker and the timestamp it is written under
StatOf(workerName, pendingStat, shareDifficulty, timestamp) ==
    [WorkerName        |-> workerName,
     ValidShareCount   |-> pendingStat.ValidShares,
     StaleShareCount   |-> pendingStat.StaleShares,
     InvalidShareCount |-> pendingStat.InvalidShares,
     ReportedHashrate  |-> pendingStat.ReportedHashrate,
     EffectiveHashrate |-> pendingStat.ValidShares * shareDifficulty,
     IPAddress         |-> pendingStat.IPAddress,
     Timestamp         |-> timestamp]

\* workers of the map the range loop has not visited yet
Unvisited == DOMAIN PendingStats \ { r.WorkerName : r \in batch }

\* one iteration of the range loop, in the map's arbitrary order; the clock
\* is read in every iteration
BuildRow ==
    /\ pc = "build"
    /\ \E workerName \in Unvisited :
          LET stat == StatOf(workerName, PendingStats[workerName],
                             ShareDifficulty, BucketOf(now))
          IN  /\ batch' = batch \cup {stat}
              \* += effectiveHashrate / statCollectionPeriodSecs
              /\ totalCollectedHashrate' =
                     totalCollectedHashrate + stat.EffectiveHashrate
    /\ UNCHANGED <<now, constructed, ShareDifficulty, PendingStats, Mux, cancelled,
                   engineWaitGroup, pc, prevCollectionTimestamp,
                   store, rpc, waitReturned,
                   periodLog, flushed, emitted, writeFailed, pruneFailed,
                   nRecords, stopCalls,
                   runs>>

\* mutant: the mutex is not released after the range loop
UnlockKeepingMux ==
    /\ pc = "build"
    /\ Unvisited = {}
    /\ pc' = "clear_lock"
    /\ periodLog' = EmptyLog
    /\ UNCHANGED <<now, constructed, ShareDifficulty, PendingStats, Mux, cancelled,
                   engineWaitGroup, prevCollectionTimestamp, totalCollectedHashrate,
                   batch, store, rpc, waitReturned,
                   flushed, emitted, writeFailed, pruneFailed,
                   nRecords, stopCalls,
                   runs>>

\* the range loop is over: c.Mux.Unlock()
Unlock ==
    /\ pc = "build"
    /\ Unvisited = {}
    /\ Mux' = "free"
    /\ pc' = "clear_lock"
    /\ periodLog' = EmptyLog
    /\ UNCHANGED <<now, constructed, ShareDifficulty, PendingStats, cancelled,
                   engineWaitGroup, prevCollectionTimestamp, totalCollectedHashrate,
                   batch, store, rpc, waitReturned,
                   flushed, emitted, writeFailed, pruneFailed,
                   nRecords, stopCalls,
                   runs>>

\* c.Clear(): c.Mux.Lock()
ClearLock ==
    /\ pc = "clear_lock"
    /\ Mux = "free"
    /\ Mux' = "flusher"
    /\ pc' = "clear"
    /\ UNCHANGED <<now, constructed, ShareDifficulty, PendingStats, cancelled,
                   engineWaitGroup, prevCollectionTimestamp, totalCollectedHashrate,
                   batch, store, rpc, waitReturned,
                   periodLog, flushed, emitted, writeFailed, pruneFailed,
                   nRecords, stopCalls,
                   runs>>

\* c.Clear(): delete every key; c.Mux.Unlock()
Clear ==
    /\ pc = "clear"
    /\ PendingStats' = EmptyMap
    /\ Mux' = "free"
    /\ pc' = "write"
    /\ UNCHANGED <<now, constructed, ShareDifficulty, cancelled,
                   engineWaitGroup, prevCollectionTimestamp, totalCollectedHashrate,
                   batch, store, rpc, waitReturned,
                   periodLog, flushed, emitted, writeFailed, pruneFailed,
                   nRecords, stopCalls,
                   runs>>

\* mutant: a failed write ends the goroutine (a panic or log.Fatal on the error)
WriteFatal ==
    /\ pc = "write"
    /\ \/ /\ store' = WriteBatch(store, batch)
          /\ writeFailed' = FALSE
          /\ emitted' = Append(emitted, totalCollectedHashrate)
          /\ totalCollectedHashrate' = 0
          /\ pc' = "prune"
       \/ /\ writeFailed' = TRUE
          /\ pc' = "crashed"
          /\ UNCHANGED <<store, emitted, totalCollectedHashrate>>
    /\ UNCHANGED <<now, constructed, ShareDifficulty, PendingStats, Mux, cancelled,
                   engineWaitGroup, prevCollectionTimestamp,
                   batch, rpc, waitReturned,
                   periodLog, flushed, pruneFailed,
                   nRecords, stopCalls,
                   runs>>

\* mutant: the write is skipped and Run returns when the context is cancelled
WriteUnlessCancelled ==
    /\ pc = "write"
    /\ \/ /\ cancelled
          /\ pc' = "stopped"
          /\ engineWaitGroup' = engineWaitGroup - 1
          /\ UNCHANGED <<store, writeFailed, emitted, totalCollectedHashrate>>
       \/ /\ ~cancelled
          /\ \/ /\ store' = WriteBatch(store, batch)
                /\ writeFailed' = FALSE
             \/ /\ writeFailed' = TRUE
                /\ UNCHANGED store
          /\ emitted' = Append(emitted, totalCollectedHashrate)
          /\ totalCollectedHashrate' = 0
          /\ pc' = "prune"
          /\ UNCHANGED engineWaitGroup
    /\ UNCHANGED <<now, constructed, ShareDifficulty, PendingStats, Mux, cancelled,
                   prevCollectionTimestamp,
                   batch, rpc, waitReturned,
                   periodLog, flushed, pruneFailed,
                   nRecords, stopCalls,
                   runs>>

\* mutant: a failed write puts the counters of the batch back in the map
WriteRequeueOnFailure ==
    /\ pc = "write"
    /\ \/ /\ store' = WriteBatch(store, batch)
          /\ writeFailed' = FALSE
          /\ UNCHANGED PendingStats
       \/ /\ writeFailed' = TRUE
          /\ PendingStats' =
                [w \in DOMAIN PendingStats \cup {r.WorkerName : r \in batch} |->
                    IF \E r \in batch : r.WorkerName = w
                    THEN LET r == CHOOSE x \in batch : x.WorkerName = w
                         IN  Merge(PendingStats, w, r.ValidShareCount,
                                   r.StaleShareCount, r.InvalidShareCount,
                                   IF w \in DOMAIN PendingStats
                                   THEN PendingStats[w].ReportedHashrate
                                   ELSE r.ReportedHashrate,
                                   IF w \in DOMAIN PendingStats
                                   THEN PendingStats[w].IPAddress
                                   ELSE r.IPAddress)[w]
                    ELSE PendingStats[w]]
          /\ UNCHANGED store
    /\ emitted' = Append(emitted, totalCollectedHashrate)
    /\ totalCollectedHashrate' = 0
    /\ pc' = "prune"
    /\ UNCHANGED <<now, constructed, ShareDifficulty, Mux, cancelled,
                   engineWaitGroup, prevCollectionTimestamp,
                   batch, rpc, waitReturned,
                   periodLog, flushed, pruneFailed,
                   nRecords, stopCalls,
                   runs>>

\* c.Database.DB.Write(batch, nil): the error is dropped; then the summary
\* is logged and totalCollectedHashrate reset (both local to Run)
Write ==
    /\ pc = "write"
    /\ \/ /\ store' = WriteBatch(store, batch)
          /\ writeFailed' = FALSE
       \/ /\ writeFailed' = TRUE
          /\ UNCHANGED store
    /\ emitted' = Append(emitted, totalCollectedHashrate)
    /\ totalCollectedHashrate' = 0
    /\ pc' = "prune"
    /\ UNCHANGED <<now, constructed, ShareDifficulty, PendingStats, Mux, cancelled,
                   engineWaitGroup, prevCollectionTimestamp,
                   batch, rpc, waitReturned,
                   periodLog, flushed, pruneFailed,
                   nRecords, stopCalls,
                   runs>>

\* mutant: the prune is called with the collection period as its horizon
PruneWithPeriod ==
    /\ pc = "prune"
    /\ \/ /\ store' = PruneStats(store, now, statCollectionPeriodSecs)
          /\ pruneFailed' = FALSE
       \/ /\ pruneFailed' = TRUE
          /\ UNCHANGED store
    /\ pc' = "select"
    /\ UNCHANGED <<now, constructed, ShareDifficulty, PendingStats, Mux, cancelled,
                   engineWaitGroup, prevCollectionTimestamp, totalCollectedHashrate,
                   batch, rpc, waitReturned,
                   periodLog, flushed, emitted, writeFailed,
                   nRecords, stopCalls,
                   runs>>

\* c.Database.PruneStats(keepStatsForSecs): the outcome is dropped
Prune ==
    /\ pc = "prune"
    /\ \/ /\ store' = PruneStats(store, now, keepStatsForSecs)
          /\ pruneFailed' = FALSE
       \/ /\ pruneFailed' = TRUE
          /\ UNCHANGED store
    /\ pc' = "select"
    /\ UNCHANGED <<now, constructed, ShareDifficulty, PendingStats, Mux, cancelled,
                   engineWaitGroup, prevCollectionTimestamp, totalCollectedHashrate,
                   batch, rpc, waitReturned,
                   periodLog, flushed, emitted, writeFailed,
                   nRecords, stopCalls,
                   runs>>

Flusher ==
    \/ RunEnter \/ Select \/ Poll \/ Sleep \/ Lock \/ BuildRow \/ Unlock
    \/ ClearLock \/ Clear \/ Write \/ Prune

\* ---------------------------------------------------------------- specification

Init ==
    /\ now = StartTime
    /\ constructed = "none"
    /\ ShareDifficulty = 0
    /\ PendingStats = EmptyMap
    /\ Mux = "free"
    /\ cancelled = FALSE
    /\ engineWaitGroup = 0
    /\ pc = "new"
    /\ prevCollectionTimestamp = 0
    /\ totalCollectedHashrate = 0
    /\ batch = {}
    /\ store = OldRows
    /\ rpc = [p \in Producers |-> "idle"]
    /\ waitReturned = FALSE
    /\ periodLog = EmptyLog
    /\ flushed = <<>>
    /\ emitted = <<>>
    /\ writeFailed = FALSE
    /\ pruneFailed = FALSE
    /\ nRecords = 0
    /\ stopCalls = 0
    /\ runs = <<>>

Next ==
    \/ NewCollector
    \/ Start
    \/ Stop
    \/ HostWait
    \/ Tick
    \/ \E p \in Producers : RecordLock(p)
    \/ \E p \in Producers : RecordApply(p)
    \/ Flusher

Spec == Init /\ [][Next]_vars

\* the Go scheduler runs every runnable goroutine: the Flusher takes its next
\* step whenever it can
FairSpec == Spec /\ WF_vars(Flusher)

\* ---------------------------------------------------------------- two collectors

\* the clock of the two collectors
PairTick ==
    /\ now + PairClockStep <= PairMaxTime
    /\ now' = now + PairClockStep
    /\ UNCHANGED <<collectorVars, runs>>

\* Run's entry in collector c: the marker is the floor of the clock
PairRunEnter(c) ==
    /\ c \notin DOMAIN runs
    /\ runs' = [d \in DOMAIN runs \cup {c} |->
                   IF d = c
                   THEN [pc |-> "poll", prevCollectionTimestamp |-> BucketOf(now),
                         startedAt |-> now, flushes |-> <<>>]
                   ELSE runs[d]]
    /\ UNCHANGED <<now, collectorVars>>

\* mutant: the boundaries are counted from the time the collector started
PairPollFromStart(c) ==
    /\ c \in DOMAIN runs
    /\ runs[c].pc = "poll"
    /\ LET r == runs[c]
           currentCollectionTimestamp ==
               r.startedAt
                 + ((now - r.startedAt) \div statCollectionPeriodSecs)
                     * statCollectionPeriodSecs
       IN  \/ /\ currentCollectionTimestamp = r.prevCollectionTimestamp
              /\ runs' = [runs EXCEPT ![c].pc = "sleep"]
           \/ /\ currentCollectionTimestamp # r.prevCollectionTimestamp
              /\ runs' = [runs EXCEPT ![c] =
                     [r EXCEPT !.pc = "flush",
                               !.prevCollectionTimestamp = currentCollectionTimestamp,
                               !.flushes = Append(@,
                                   [at |-> now,
                                    timestamp |-> currentCollectionTimestamp])]]
    /\ UNCHANGED <<now, collectorVars>>

\* one poll of collector c: the current bucket is compared with the marker
PairPoll(c) ==
    /\ c \in DOMAIN runs
    /\ runs[c].pc = "poll"
    /\ LET r == runs[c]
           currentCollectionTimestamp == BucketOf(now)
       IN  \/ /\ currentCollectionTimestamp = r.prevCollectionTimestamp
              /\ runs' = [runs EXCEPT ![c].pc = "sleep"]
           \/ /\ currentCollectionTimestamp # r.prevCollectionTimestamp
              /\ runs' = [runs EXCEPT ![c] =
                     [r EXCEPT !.pc = "flush",
                               !.prevCollectionTimestamp = currentCollectionTimestamp,
                               !.flushes = Append(@,
                                   [at |-> now,
                                    timestamp |-> currentCollectionTimestamp])]]
    /\ UNCHANGED <<now, collectorVars>>

\* time.Sleep(time.Second); continue
PairSleep(c) ==
    /\ c \in DOMAIN runs
    /\ runs[c].pc = "sleep"
    /\ runs' = [runs EXCEPT ![c].pc = "poll"]
    /\ UNCHANGED <<now, collectorVars>>

\* the flush of collector c, from the lock to the prune, then the next iteration
PairFlush(c) ==
    /\ c \in DOMAIN runs
    /\ runs[c].pc = "flush"
    /\ runs' = [runs EXCEPT ![c].pc = "poll"]
    /\ UNCHANGED <<now, collectorVars>>

PairNext ==
    \/ PairTick
    \/ \E c \in Collectors : PairRunEnter(c)
    \/ \E c \in Collectors : PairPoll(c)
    \/ \E c \in Collectors : PairSleep(c)
    \/ \E c \in Collectors : PairFlush(c)

PairSpec == Init /\ [][PairNext]_vars

\* ---------------------------------------------------------------- properties

RECURSIVE SumField(_, _)
SumField(log, f) == IF log = <<>> THEN 0 ELSE log[1][f] + SumField(Tail(log), f)

\* workers with a Record call since the last completed batch build
ActiveWorkers == { w \in Workers : periodLog[w] # <<>> }

\* no Record call of the open period ran between the Flusher's Unlock and Clear
NoRecordInFlush ==
    \A w \in Workers : \A i \in DOMAIN periodLog[w] : ~periodLog[w][i].inFlush

\* the range loop has visited every worker: the batch is complete
BatchBuilt == pc = "build" /\ Unvisited = {}

\* C1: every Record update applied to the Accumulator is delivered to exactly
\* one batch: outside the window between the Flusher's Unlock and the end of
\* its Clear, the Accumulator holds exactly the updates applied since the last
\* batch was built (none erased undelivered, none kept after delivery).
C1_EveryUpdateInExactlyOneBatch ==
    pc \notin {"clear_lock", "clear"} =>
        \A w \in Workers :
            /\ (w \in DOMAIN PendingStats) <=> (w \in ActiveWorkers)
            /\ w \in DOMAIN PendingStats =>
                  /\ PendingStats[w].ValidShares = SumField(periodLog[w], "validDelta")
                  /\ PendingStats[w].StaleShares = SumField(periodLog[w], "staleDelta")
                  /\ PendingStats[w].InvalidShares = SumField(periodLog[w], "invalidDelta")

C3_EffectiveHashrateDividedByPeriod ==
    \A r \in batch :
        r.EffectiveHashrate * statCollectionPeriodSecs
            = r.ValidShareCount * ShareDifficulty

NoDuplicates(seq) ==
    \A i, j \in DOMAIN seq : i # j => seq[i] # seq[j]

\* C4: a poll starts a flush exactly when the current bucket differs from the
\* previous one, a flush is started by nothing else, and no bucket is flushed
\* twice.
C4_OneFlushPerNewIndex ==
    /\ [](NoDuplicates(flushed))
    /\ [][/\ (pc = "poll" /\ pc' # pc) =>
                ((pc' = "lock") <=> (BucketOf(now) # prevCollectionTimestamp))
          /\ (pc' = "lock" /\ pc # "lock") =>
                /\ pc = "poll"
                /\ BucketOf(now) # prevCollectionTimestamp
                /\ prevCollectionTimestamp' = BucketOf(now)
                /\ flushed' = Append(flushed, BucketOf(now))
          /\ (flushed' # flushed) => (pc = "poll" /\ pc' = "lock")]_vars

\* two flushes done, and a later poll that saw the flushed bucket again and
\* went to sleep
C4_Witness ==
    /\ Len(flushed) >= 2
    /\ pc = "sleep"
    /\ BucketOf(now) = flushed[Len(flushed)]

\* C5: the complete batch of a flush has one row per distinct worker that
\* called Record during the period it closes.
C5_OneRowPerActiveWorker ==
    BatchBuilt => Cardinality(batch) = Cardinality(ActiveWorkers)

\* C6: once Stop has been called and Run is in time.Sleep, Run goes from the
\* sleep to the select and from the select to Stopped, and in between nothing
\* is flushed, batched, written or logged.
C6_StopWhileSleeping ==
    [][(cancelled /\ pc \in {"sleep", "select"}) =>
          /\ pc' \in {"sleep", "select", "stopped"}
          /\ (pc = "sleep" /\ pc' # pc) => pc' = "select"
          /\ (pc = "select" /\ pc' # pc) => pc' = "stopped"
          /\ store' = store
          /\ batch' = batch
          /\ flushed' = flushed
          /\ emitted' = emitted]_vars

\* Stop has been called and Run is in its sleep, after a flush and with data
\* of the in-progress period in the Accumulator
C6_Witness ==
    /\ cancelled
    /\ pc = "sleep"
    /\ Len(flushed) >= 1
    /\ PendingStats # EmptyMap

\* C7: the host's wait on engineWaitGroup, begun after it started the Flusher,
\* does not return before the Flusher has terminated.
C7_WaitOutlastsFlusher ==
    waitReturned => pc = "stopped"

\* Run is waiting for the next boundary (Idle), or has returned (Stopped)
Idle == pc \in {"select", "poll", "sleep"}

Stopped == pc = "stopped"

\* C8: a failed batch write or prune neither crashes nor blocks the loop:
\* after a failure Run is Idle again (or Stopped, once cancelled), and the poll
\* that then sees a new bucket starts the flush for it.
C8_FailureDoesNotStopLoop ==
    /\ (writeFailed \/ pruneFailed) ~> (Idle \/ Stopped)
    /\ [][((writeFailed \/ pruneFailed) /\ pc = "poll" /\ pc' # pc
              /\ BucketOf(now) # prevCollectionTimestamp) => pc' = "lock"]_vars

\* both the write and the prune of a flush failed, Run is polling again and
\* sees a new bucket, with the following period's data in the Accumulator
C8_Witness ==
    /\ writeFailed
    /\ pruneFailed
    /\ pc = "poll"
    /\ BucketOf(now) # prevCollectionTimestamp
    /\ PendingStats # EmptyMap

\* C9: NewCollector with shareDifficulty = 0 yields an error and the loop
\* never starts.
C9_InvalidConfigRejected ==
    (constructed # "none" /\ ShareDifficulty = 0) =>
        (constructed = "error" /\ pc \in {"new", "ready"})

\* C10: a second or later Stop call changes nothing of the program's state:
\* once Stop has been called the context stays cancelled, and the step of the
\* second call leaves every program variable as it was.
C10_StopIdempotent ==
    [][/\ stopCalls >= 1 => (cancelled /\ cancelled')
       /\ (stopCalls >= 1 /\ stopCalls' # stopCalls) => UNCHANGED progVars]_vars

\* Stop was called twice and Run, started afterwards or running, has stopped
C10_Witness ==
    /\ stopCalls >= 2
    /\ cancelled
    /\ pc = "stopped"

\* Run is inside a flush, between the poll that started it and its prune
InFlush == pc \in {"lock", "build", "clear_lock", "clear", "write", "prune"}

\* C11: every Timestamp put in a batch or held by the store is an exact
\* multiple of statCollectionPeriodSecs.
C11_TimestampsAligned ==
    \A r \in batch \cup store : r.Timestamp % statCollectionPeriodSecs = 0

\* a row of this run is in the store while the clock is off a boundary
C11_Witness ==
    /\ now % statCollectionPeriodSecs # 0
    /\ \E r \in store \ OldRows : r.Timestamp > 0

\* C12: all rows of one flush carry the timestamp of the boundary whose
\* crossing started the flush (prevCollectionTimestamp).
C12_RowsCarryFlushBoundary ==
    InFlush => \A r \in batch : r.Timestamp = prevCollectionTimestamp

\* C13: the Flusher holds the mutex exactly while it builds the batch and
\* while Clear deletes the keys, so never in the sleep, the write or the prune;
\* a producer holds it exactly inside Record's critical section.
\* Whoever holds the mutex is never blocked: its next step, which leads to the
\* release, is enabled, so the mutex is never held across a wait.
C13_MutexOnlyInCriticalSections ==
    /\ (Mux = "flusher") <=> (pc \in {"build", "clear"})
    /\ \A p \in Producers : (Mux = p) <=> (rpc[p] = "locked")
    /\ Mux = "flusher" => ENABLED Flusher
    /\ \A p \in Producers : Mux = p => ENABLED RecordApply(p)

\* a producer is inside Record while the Flusher is at the write or the prune
C13_Witness ==
    /\ pc \in {"write", "prune"}
    /\ \E p \in Producers : Mux = p /\ rpc[p] = "locked"

\* C14: the prune is entered only from the batch write, once per flush, and
\* ends the flush; when it does not fail, the store afterwards is the store
\* before without the rows of Timestamp < now - keepStatsForSecs.
C14_PruneOncePerFlushWithHorizon ==
    [][/\ (pc' = "prune" /\ pc # "prune") => pc = "write"
       /\ (pc = "write" /\ pc' # pc) => pc' = "prune"
       /\ (pc = "prune" /\ pc' # pc) =>
             /\ pc' = "select"
             /\ ~pruneFailed' =>
                   /\ \A r \in store' : ~(r.Timestamp < now - keepStatsForSecs)
                   /\ \A r \in store :
                         r.Timestamp >= now - keepStatsForSecs => r \in store'
                   /\ store' \subseteq store]_vars

\* a prune has removed the old row of Timestamp 0 and kept a newer old row
\* and a row written by the flush
C14_Witness ==
    /\ pc = "select"
    /\ ~pruneFailed
    /\ Len(emitted) >= 1
    /\ \E r \in OldRows : r \notin store
    /\ \E r \in OldRows : r \in store
    /\ \E r \in store : r \notin OldRows

\* the step after each step of a flush
FlushSuccessor ==
    [p \in {"lock", "build", "clear_lock", "clear", "write", "prune"} |->
        CASE p = "lock" -> "build"
          [] p = "build" -> "clear_lock"
          [] p = "clear_lock" -> "clear"
          [] p = "clear" -> "write"
          [] p = "write" -> "prune"
          [] p = "prune" -> "select"]

\* C16: a started flush goes through snapshot, clear, one write of the whole
\* batch and the prune in this order whether or not Stop has been called; Run
\* returns only from the select between iterations; the batch is not changed
\* between the end of the snapshot and the write, a write that succeeds puts
\* every row of the batch in the store, and the next step of a flush is
\* enabled whenever the mutex is not held by a producer, cancelled or not.
C16_FlushRunsToCompletion ==
    /\ [][/\ (InFlush /\ pc' # pc) => pc' = FlushSuccessor[pc]
          /\ (pc' = "stopped" /\ pc # "stopped") => (pc = "select" /\ cancelled)
          /\ (pc \in {"clear_lock", "clear", "write"}) => batch' = batch
          /\ (pc = "clear" /\ pc' # pc) => PendingStats' = EmptyMap
          /\ (pc = "write" /\ pc' # pc) =>
                /\ Len(emitted') = Len(emitted) + 1
                /\ writeFailed' \/ batch \subseteq store']_vars
    /\ []((InFlush /\ Mux \in {"free", "flusher"}) => ENABLED Flusher)

\* Stop was called during a flush of a non-empty batch, and the batch has
\* been written all the same
C16_Witness ==
    /\ cancelled
    /\ pc = "prune"
    /\ batch # {}
    /\ ~writeFailed
    /\ batch \subseteq store

\* sum of the EffectiveHashrate of the rows of a batch
RECURSIVE SumEffectiveHashrate(_)
SumEffectiveHashrate(rows) ==
    IF rows = {} THEN 0
    ELSE LET r == CHOOSE x \in rows : TRUE
         IN  r.EffectiveHashrate + SumEffectiveHashrate(rows \ {r})

\* C18: the summary emitted at a flush equals the sum of the EffectiveHashrate
\* of the rows of that flush, and no amount of an earlier flush is in it.
\* (emitted holds the summary times statCollectionPeriodSecs.)
C18_SummaryIsSumOfRows ==
    /\ pc = "prune" =>
          emitted[Len(emitted)]
              = statCollectionPeriodSecs * SumEffectiveHashrate(batch)
    /\ pc \in {"select", "poll", "sleep", "lock"} => totalCollectedHashrate = 0

\* C19: no (WorkerName, Timestamp) key is written by two flushes: when a
\* batch is about to be written, none of its keys is the key of a row that an
\* earlier flush of this run has put in the store.
C19_NoKeyWrittenTwice ==
    pc = "write" =>
        \A r \in batch :
            ~\E s \in store \ OldRows :
                /\ s.WorkerName = r.WorkerName
                /\ s.Timestamp = r.Timestamp

\* a Record call whose update was still in the map at the next snapshot
Kept(entry) == ~entry.inFlush

\* C20: a failed write is not retried and its counters are not put back: the
\* write step changes neither the map nor the batch and is followed by the
\* prune whatever its outcome, and the counts of every batch built are the
\* sums of the deltas recorded since the snapshot before it.
C20_NoRetryNoRequeue ==
    /\ [][(pc = "write" /\ pc' # pc) =>
             /\ pc' = "prune"
             /\ PendingStats' = PendingStats
             /\ batch' = batch]_vars
    /\ [](BatchBuilt =>
             \A r \in batch :
                LET log == SelectSeq(periodLog[r.WorkerName], Kept)
                IN  /\ r.ValidShareCount = SumField(log, "validDelta")
                    /\ r.StaleShareCount = SumField(log, "staleDelta")
                    /\ r.InvalidShareCount = SumField(log, "invalidDelta"))

\* the write of a first non-empty batch has failed and a second non-empty
\* batch has been built
C20_Witness ==
    /\ BatchBuilt
    /\ batch # {}
    /\ Len(flushed) = 2
    /\ Len(emitted) = 1
    /\ emitted[1] > 0
    /\ store \subseteq OldRows

\* Run has been entered
Started == pc \notin {"new", "ready", "enter"}

\* C17: no flush fires on start: Run's entry sets the marker to the floor of
\* the clock, the marker stays until the first flush is started, and the
\* first flush is started by a poll whose bucket differs from it; until then
\* Run only selects, polls and sleeps, nothing is written or pruned, no
\* summary is logged, and the map holds everything that has been recorded.
C17_NoFlushOnStart ==
    /\ [][/\ (pc = "enter" /\ pc' # pc) =>
                /\ pc' = "select"
                /\ prevCollectionTimestamp' = BucketOf(now)
          /\ (Started /\ flushed' = <<>>) =>
                prevCollectionTimestamp' = prevCollectionTimestamp
          /\ (flushed = <<>> /\ flushed' # <<>>) =>
                /\ pc = "poll"
                /\ BucketOf(now) # prevCollectionTimestamp
                /\ flushed' = <<BucketOf(now)>>]_vars
    /\ []((Started /\ flushed = <<>>) =>
             /\ pc \in {"select", "poll", "sleep", "stopped"}
             /\ store = OldRows
             /\ batch = {}
             /\ emitted = <<>>
             /\ \A w \in Workers :
                   /\ (w \in DOMAIN PendingStats) <=> (periodLog[w] # <<>>)
                   /\ w \in DOMAIN PendingStats =>
                         PendingStats[w].ValidShares
                             = SumField(periodLog[w], "validDelta"))

\* Run has polled in the period it was started in, with data in the map,
\* and has gone to sleep without a flush
C17_Witness ==
    /\ pc = "sleep"
    /\ flushed = <<>>
    /\ BucketOf(now) = prevCollectionTimestamp
    /\ PendingStats # EmptyMap

\* C15: bucket boundaries do not depend on the start time: whenever two
\* collectors on the same clock, whatever their start times, each start a
\* flush on a poll made in the same period, the two flushes have the same
\* timestamp (checked under PairSpec).
C15_BoundariesIndependentOfStart ==
    \A c, d \in DOMAIN runs :
        \A i \in DOMAIN runs[c].flushes :
            \A j \in DOMAIN runs[d].flushes :
                LET f == runs[c].flushes[i]
                    g == runs[d].flushes[j]
                IN  (f.at \div statCollectionPeriodSecs
                        = g.at \div statCollectionPeriodSecs)
                    => f.timestamp = g.timestamp

\* two collectors started in different periods, at different offsets in the
\* period, have flushed the same boundary on polls made at different times
C15_Witness ==
    /\ DOMAIN runs = Collectors
    /\ BucketOf(runs["a"].startedAt) # BucketOf(runs["b"].startedAt)
    /\ runs["a"].startedAt % statCollectionPeriodSecs
          # runs["b"].startedAt % statCollectionPeriodSecs
    /\ \E i \in DOMAIN runs["a"].flushes :
          \E j \in DOMAIN runs["b"].flushes :
              /\ runs["a"].flushes[i].at # runs["b"].flushes[j].at
              /\ runs["a"].flushes[i].timestamp = runs["b"].flushes[j].timestamp

====
